---- MODULE Spec2Model ----
(***************************************************************************)
(* randd: a dd-like copier that reads blocks from a source and writes each *)
(* of them at a random offset of an existing destination (src/main.rs).    *)
(*                                                                         *)
(* The model follows main(): RandomDd::new resolves the arguments, then    *)
(* RandomDd::run opens the files, checks the destination, and loops over   *)
(* read / seek / write / flip / flush / count / throttle, and prints the   *)
(* final summary.  Size strings are sequences of one-character strings.    *)
(* The progress thread of start_progress_thread runs beside the loop and   *)
(* shares the bitmap's Mutex with flip_bit and with the final summary.     *)
(***************************************************************************)
EXTENDS Integers, Sequences, FiniteSets, TLC

(***************************************************************************)
(* Bounds of the model.                                                    *)
(***************************************************************************)
MaxDest == 3        \* destination sizes 0..MaxDest
MaxSrc == 3         \* finite source lengths 0..MaxSrc
MaxCount == 2       \* --count values 1..MaxCount
MaxSkip == 1        \* --skip values 1..MaxSkip
MaxBlocks == 3      \* iterations modelled when nothing else ends the loop
MaxTime == 1        \* I/O takes time only while the clock is below MaxTime
MaxGrow == 1        \* bytes a source may deliver after it reported end-of-stream
MaxBytes == 2       \* bitmaps of 1..MaxBytes bytes when flip_bit is applied alone

\* Option<T>: None is the empty sequence, Some(x) the sequence of x alone
None == <<>>
Some(x) == <<x>>
Get(o) == o[1]

\* the length of a source that never reports end-of-stream (/dev/zero)
Endless == 0 - 1

(***************************************************************************)
(* RandomDd::parse_size and RandomDd::parse_bs_range                       *)
(***************************************************************************)
Digits == {"0", "1", "2", "3", "4", "5", "6", "7", "8", "9"}

DigitVal(c) ==
    CASE c = "0" -> 0 [] c = "1" -> 1 [] c = "2" -> 2 [] c = "3" -> 3
      [] c = "4" -> 4 [] c = "5" -> 5 [] c = "6" -> 6 [] c = "7" -> 7
      [] c = "8" -> 8 [] c = "9" -> 9

\* char::to_lowercase on the letters a size string can hold
ToLower(c) ==
    CASE c = "B" -> "b" [] c = "K" -> "k" [] c = "M" -> "m" [] c = "G" -> "g"
      [] c = "T" -> "t" [] c = "P" -> "p" [] c = "W" -> "w" [] c = "X" -> "x"
      [] OTHER -> c

RECURSIVE TrimStart(_)
TrimStart(s) ==
    IF s # <<>> /\ Head(s) = " " THEN TrimStart(Tail(s)) ELSE s

RECURSIVE TrimEnd(_)
TrimEnd(s) ==
    IF s # <<>> /\ s[Len(s)] = " " THEN TrimEnd(SubSeq(s, 1, Len(s) - 1)) ELSE s

\* s.trim().to_lowercase()
Normalize(s) ==
    LET t == TrimEnd(TrimStart(s)) IN [i \in 1..Len(t) |-> ToLower(t[i])]

\* s.find(|c| !c.is_ascii_digit()).unwrap_or(s.len()), as a count of leading digits
DigitPrefixLen(s) ==
    IF \E i \in 1..Len(s) : s[i] \notin Digits
    THEN (CHOOSE i \in 1..Len(s) :
             /\ s[i] \notin Digits
             /\ \A j \in 1..(i - 1) : s[j] \in Digits) - 1
    ELSE Len(s)

RECURSIVE ParseNum(_)
ParseNum(num) ==
    IF num = <<>> THEN 0
    ELSE 10 * ParseNum(SubSeq(num, 1, Len(num) - 1)) + DigitVal(num[Len(num)])

Err(kind) == [ok |-> FALSE, err |-> kind]
Ok(v) == [ok |-> TRUE, val |-> v]

SuffixMultiply(base, suffix) ==
    CASE suffix = <<"b">> -> Ok(base * 512)
      [] suffix = <<"k">> -> Ok(base * 1024)
      [] suffix = <<"m">> -> Ok(base * 1024 * 1024)
      [] suffix = <<"g">> -> Ok(base * 1024 * 1024 * 1024)
      [] suffix = <<"t">> -> Ok(base * 1024 * 1024 * 1024 * 1024)
      [] suffix = <<"p">> -> Ok(base * 1024 * 1024 * 1024 * 1024 * 1024)
      [] suffix = <<"w">> -> Ok(base * 4)
      [] suffix = <<>> -> Ok(base)
      [] OTHER -> Err("unknown_suffix")

parse_size(str) ==
    LET s == Normalize(str)
        n == DigitPrefixLen(s)
        num == SubSeq(s, 1, n)
        suffix == SubSeq(s, n + 1, Len(s))
    IN  IF num = <<>> THEN Err("invalid_size")
        ELSE SuffixMultiply(ParseNum(num), suffix)

\* s.split_once('-'): the index of the first '-', or 0
DashAt(s) ==
    IF \E i \in 1..Len(s) : s[i] = "-"
    THEN CHOOSE i \in 1..Len(s) : s[i] = "-" /\ \A j \in 1..(i - 1) : s[j] # "-"
    ELSE 0

RangeChecked(min_size, max_size) ==
    IF min_size > max_size THEN Err("bad_range") ELSE Ok(<<min_size, max_size>>)

parse_bs_range(s) ==
    LET d == DashAt(s) IN
    IF d > 0
    THEN LET lo == parse_size(SubSeq(s, 1, d - 1))
             hi == parse_size(SubSeq(s, d + 1, Len(s)))
         IN  IF ~lo.ok THEN lo
             ELSE IF ~hi.ok THEN hi
             ELSE RangeChecked(lo.val, hi.val)
    ELSE LET size == parse_size(s)
         IN  IF ~size.ok THEN size ELSE Ok(<<size.val, size.val>>)

\* the match on args.status in RandomDd::new
ParseStatus(status) ==
    CASE status = Some("none") -> Ok("None")
      [] status = Some("progress") -> Ok("Progress")
      [] status = Some("bitarray") -> Ok("BitArray")
      [] status = Some("noxfer") -> Ok("Noxfer")
      [] status = None -> Ok("Noxfer")
      [] OTHER -> Err("bad_status")

\* u64::div_ceil, for a divisor that is not zero
DivCeil(a, b) == (a + b - 1) \div b

Max(a, b) == IF a >= b THEN a ELSE b
Min(a, b) == IF a <= b THEN a ELSE b


(***************************************************************************)
(* Inputs: the command line, the destination and the source.               *)
(***************************************************************************)
BsInputs ==
    { <<"2">>, <<"2", "-", "3">>, <<"1", "W">>, <<"0">>, <<"0", "-", "2">>,
      <<"3", "-", "2">>, <<"1", "x">>, <<"k">> }
StatusInputs ==
    {None} \cup {Some(st) : st \in {"none", "noxfer", "progress", "bitarray", "verbose"}}
ConvInputs == {"noerror", "sync"}
CountInputs == {None} \cup {Some(n) : n \in 1..MaxCount}         \* Option<NonZeroU64>
SkipInputs == {None} \cup {Some(n) : n \in 1..MaxSkip}
SpeedInputs == {None, Some(<<"0">>), Some(<<"2">>), Some(<<"1", "x">>)}
DestSizes == 0..MaxDest
SourceLengths == (0..MaxSrc) \cup {Endless}
BadPositions == {None, Some(0)}      \* a source position whose read fails with EIO

NoError == "none"

ConfigErrors ==
    {"invalid_size", "unknown_suffix", "bad_range", "bad_status",
     "zero_size", "block_too_large", "bad_speed"}

VARIABLES
    pc,               \* where main()/run() stands
    args,             \* the fields of Args that run() reads: count, skip, speed
    bs_min, bs_max, noerror, sync, status_level, bytes_copied,   \* RandomDd
    output_size,      \* the destination's size (output.metadata().len())
    input_len,        \* the source's length, or Endless
    bad_pos,          \* the source position that cannot be read, or None
    input_pos,        \* the source's read position
    grown,            \* bytes the source delivered after end-of-stream
    speed_limit, bitarray, blocks_processed,      \* locals of run()
    chunk_size, buffer, read_result, actual_read, output_pos,  \* of one iteration
    now,              \* start_time.elapsed(), in whole time units
    error,            \* the Err(..) that main() reports, or NoError
    io_ops,           \* the kinds of I/O operations performed so far
    io_errors,        \* the kinds of I/O operations that have failed so far
    writes,           \* number of write_all calls issued on the destination
    summary,          \* the final summary line has been printed
    reporter,         \* where the progress thread stands, "off" when not spawned
    mutex,            \* the holder of the bitarray's Mutex, or "free"
    flip_orig,        \* flip_bit applied alone: the bitmap before the first flip
    flip_index        \* flip_bit applied alone: the index flipped

vars ==
    <<pc, args, bs_min, bs_max, noerror, sync, status_level, bytes_copied,
      output_size, input_len, bad_pos, input_pos, grown, speed_limit, bitarray,
      blocks_processed, chunk_size, buffer, read_result, actual_read,
      output_pos, now,
      error, io_ops, io_errors, writes, summary,
      reporter, mutex, flip_orig, flip_index>>

config == <<args, bs_min, bs_max, noerror, sync, status_level>>
environment == <<output_size, input_len, bad_pos>>
iteration == <<chunk_size, buffer, read_result, actual_read, output_pos>>
threads == <<reporter, mutex>>
alone == <<flip_orig, flip_index>>

max_blocks == args.count
bitarray_size == DivCeil(output_size, bs_min)

Zeros(n) == [i \in 1..n |-> 0]
\* a buffer of n bytes whose first k bytes hold source data (1) and the rest 0
Filled(n, k) == [i \in 1..n |-> IF i <= k THEN 1 ELSE 0]

Init ==
    /\ pc = "main"
    /\ args = [count |-> None, skip |-> None, speed |-> None]
    /\ bs_min = 0 /\ bs_max = 0
    /\ noerror = FALSE /\ sync = FALSE
    /\ status_level = "Noxfer"
    /\ bytes_copied = 0
    /\ output_size \in DestSizes
    /\ input_len \in SourceLengths
    /\ bad_pos \in BadPositions
    /\ (bad_pos # None /\ input_len # Endless) => Get(bad_pos) < input_len
    /\ input_pos = 0
    /\ grown = 0
    /\ speed_limit = None
    /\ bitarray = <<>>
    /\ blocks_processed = 0
    /\ chunk_size = 0 /\ buffer = <<>> /\ read_result = "unset"
    /\ actual_read = 0 /\ output_pos = 0
    /\ now = 0
    /\ error = NoError
    /\ io_ops = {}
    /\ io_errors = {}
    /\ writes = 0
    /\ summary = FALSE
    /\ reporter = "off"
    /\ mutex = "free"
    /\ flip_orig = <<>>
    /\ flip_index = 0

\* run() returns Err(kind): main() prints it and exits with status 1
Fatal(kind) ==
    /\ pc' = "fatal"
    /\ error' = kind

(***************************************************************************)
(* main() and RandomDd::new: resolve the arguments.                        *)
(***************************************************************************)
New ==
    /\ pc = "main"
    /\ \E bs \in BsInputs, status \in StatusInputs, conv \in SUBSET ConvInputs,
          count \in CountInputs, skip \in SkipInputs, speed \in SpeedInputs :
         LET range == parse_bs_range(bs)
             level == ParseStatus(status)
         IN  /\ args' = [count |-> count, skip |-> skip, speed |-> speed]
             /\ IF ~range.ok
                THEN /\ Fatal(range.err)
                     /\ UNCHANGED <<bs_min, bs_max, noerror, sync, status_level>>
                ELSE IF ~level.ok
                THEN /\ Fatal(level.err)
                     /\ UNCHANGED <<bs_min, bs_max, noerror, sync, status_level>>
                ELSE /\ bs_min' = range.val[1]
                     /\ bs_max' = range.val[2]
                     /\ noerror' = ("noerror" \in conv)
                     /\ sync' = ("sync" \in conv)
                     /\ status_level' = level.val
                     /\ pc' = "run"
                     /\ UNCHANGED error
    /\ UNCHANGED <<bytes_copied, environment, input_pos, grown, speed_limit,
                   bitarray, blocks_processed, iteration, now, io_ops,
                   io_errors, writes, summary, threads, alone>>

(***************************************************************************)
(* RandomDd::run up to the copy loop: open, skip, destination checks,      *)
(* speed limit, bitmap allocation.                                         *)
(***************************************************************************)
SkipTarget == Get(args.skip) * Max(bs_min, bs_max)

\* the test of line 262 with an off-by-one: a block one byte larger than the
\* destination passes
BlockTooLargeOffByOne == bs_min > output_size + 1

\* line 262
BlockTooLarge == bs_min > output_size

\* lines 181-184: start_progress_thread spawns the thread
SpawnsReporter == status_level \in {"Progress", "BitArray"}

Startup ==
    /\ pc = "run"
    /\ \E seek_ok \in BOOLEAN :
         LET skipping == args.skip # None
             speed == IF args.speed = None THEN Ok(0) ELSE parse_size(Get(args.speed))
         IN  /\ (~skipping) => seek_ok
             /\ io_ops' = IF skipping THEN io_ops \cup {"src_seek"} ELSE io_ops
             /\ io_errors' = IF seek_ok THEN io_errors
                             ELSE io_errors \cup {"src_seek"}
             /\ input_pos' = IF skipping /\ seek_ok THEN SkipTarget ELSE input_pos
             /\ IF ~seek_ok
                THEN /\ Fatal("seek_input")
                     /\ UNCHANGED <<speed_limit, bitarray, reporter>>
                ELSE IF output_size = 0
                THEN /\ Fatal("zero_size")
                     /\ UNCHANGED <<speed_limit, bitarray, reporter>>
                ELSE IF BlockTooLarge
                THEN /\ Fatal("block_too_large")
                     /\ UNCHANGED <<speed_limit, bitarray, reporter>>
                ELSE IF ~speed.ok
                THEN /\ Fatal("bad_speed")
                     /\ UNCHANGED <<speed_limit, bitarray, reporter>>
                ELSE IF bs_min = 0
                THEN \* output_size.div_ceil(0): attempt to divide by zero
                     /\ pc' = "panic"
                     /\ speed_limit' = IF args.speed = None THEN None ELSE Some(speed.val)
                     /\ UNCHANGED <<error, bitarray, reporter>>
                ELSE /\ pc' = "loop"
                     /\ reporter' = IF SpawnsReporter THEN "start" ELSE "off"
                     /\ speed_limit' = IF args.speed = None THEN None ELSE Some(speed.val)
                     /\ bitarray' = IF status_level = "BitArray"
                                    THEN Zeros(DivCeil(bitarray_size, 8))
                                    ELSE <<>>
                     /\ UNCHANGED error
    /\ UNCHANGED <<config, bytes_copied, environment, grown, blocks_processed,
                   iteration, now, writes, summary, mutex, alone>>

(***************************************************************************)
(* The copy loop, lines 296-398.                                           *)
(***************************************************************************)
\* gen_range with an upper end one past bs_max
ChunkSizesPastMax == bs_min..(bs_max + 1)

\* lines 303-307
ChunkSizes == IF bs_min = bs_max THEN {bs_min} ELSE bs_min..bs_max

\* bytes the source can deliver at its read position, at most n
Available(n) ==
    IF input_len = Endless THEN n
    ELSE Max(0, Min(n, input_len - input_pos))

\* the bad position lies among the next n bytes the source would deliver
HitsBad(n) ==
    /\ bad_pos # None
    /\ input_pos <= Get(bad_pos)
    /\ Get(bad_pos) < input_pos + Available(n)

\* lines 296-314: termination check, block size, read_exact
ReadExact ==
    /\ pc = "loop"
    /\ IF max_blocks # None /\ blocks_processed >= Get(max_blocks)
       THEN /\ pc' = "summary"
            /\ UNCHANGED <<iteration, input_pos, io_ops, io_errors>>
       ELSE /\ blocks_processed < MaxBlocks
            /\ \E c \in ChunkSizes :
                 /\ chunk_size' = c
                 /\ io_ops' = io_ops \cup {"src_read"}
                 /\ output_pos' = 0
                 /\ IF HitsBad(c)
                    THEN \* the bytes before the bad position are consumed
                         /\ buffer' = Filled(c, Get(bad_pos) - input_pos)
                         /\ input_pos' = Get(bad_pos)
                         /\ io_errors' = io_errors \cup {"src_read"}
                         /\ actual_read' = 0
                         /\ read_result' = "Other"
                         /\ pc' = "read_error"
                    ELSE IF Available(c) = c
                    THEN /\ buffer' = Filled(c, c)
                         /\ input_pos' = input_pos + c
                         /\ actual_read' = c
                         /\ read_result' = "Ok"
                         /\ pc' = "write"
                         /\ UNCHANGED io_errors
                    ELSE \* UnexpectedEof: read_exact consumed what was left
                         /\ buffer' = Filled(c, Available(c))
                         /\ input_pos' = input_pos + Available(c)
                         /\ actual_read' = 0
                         /\ read_result' = "UnexpectedEof"
                         /\ pc' = "eof"
                         /\ UNCHANGED io_errors
    /\ UNCHANGED <<config, bytes_copied, environment, grown, speed_limit,
                   bitarray, blocks_processed, now, error, writes, summary,
                   threads, alone>>

\* between read_exact and the second read a pipe, a terminal or a file that
\* is being appended to may receive more bytes
SourceGrows ==
    /\ pc = "eof"
    /\ input_len # Endless
    /\ grown < MaxGrow
    /\ input_len' = input_len + 1
    /\ grown' = grown + 1
    /\ UNCHANGED <<pc, config, bytes_copied, output_size, bad_pos, input_pos,
                   speed_limit, bitarray, blocks_processed, iteration, now,
                   error, io_ops, io_errors, writes, summary, threads, alone>>

\* line 330: the length of the block after a short read
ShortLen(bytes_read) == bytes_read

\* lines 315-331: the UnexpectedEof arm
ShortRead ==
    /\ pc = "eof"
    /\ LET bytes_read == Available(Len(buffer)) IN
         /\ input_pos' = input_pos + bytes_read
         /\ IF bytes_read = 0
            THEN /\ pc' = "summary"
                 /\ UNCHANGED <<buffer, actual_read>>
            ELSE /\ buffer' = [i \in 1..Len(buffer) |->
                                 IF i <= bytes_read THEN 1
                                 ELSE IF sync THEN 0 ELSE buffer[i]]
                 /\ actual_read' = ShortLen(bytes_read)
                 /\ pc' = "write"
    /\ UNCHANGED <<config, bytes_copied, environment, grown, speed_limit,
                   bitarray, blocks_processed, chunk_size, read_result,
                   output_pos, now, error, io_ops, io_errors, writes, summary,
                   threads, alone>>

\* a seek that moves one byte past the position of the failed read
SeekPastOneByte == input_pos + 1

\* lines 339-343: current_pos + chunk_size, the target of the seek past the error
SeekPast == input_pos + chunk_size

\* lines 332-348: the arms for an I/O error of read_exact
ReadError ==
    /\ pc = "read_error"
    /\ \E seek_ok \in BOOLEAN :
         IF ~noerror
         THEN /\ seek_ok
              /\ Fatal("input")
              /\ UNCHANGED <<buffer, actual_read, input_pos, io_ops, io_errors>>
         ELSE IF sync
         THEN /\ seek_ok
              /\ buffer' = Zeros(chunk_size)
              /\ actual_read' = chunk_size
              /\ pc' = "write"
              /\ UNCHANGED <<error, input_pos, io_ops, io_errors>>
         ELSE /\ io_ops' = io_ops \cup {"src_seek"}
              /\ UNCHANGED <<buffer, actual_read>>
              /\ IF seek_ok
                 THEN /\ input_pos' = SeekPast
                      /\ pc' = "loop"     \* continue
                      /\ UNCHANGED <<error, io_errors>>
                 ELSE /\ Fatal("seek_past")
                      /\ io_errors' = io_errors \cup {"src_seek"}
                      /\ UNCHANGED input_pos
    /\ UNCHANGED <<config, bytes_copied, environment, grown, speed_limit,
                   bitarray, blocks_processed, chunk_size, read_result,
                   output_pos, now, writes, summary, threads, alone>>

\* output_size.saturating_sub(actual_read)
SaturatingSub(a, b) == IF a >= b THEN a - b ELSE 0

\* offsets up to the destination's size, whatever the length of the block
OffsetRangeWhole == 0..output_size

\* line 351: rng.gen_range(0..=(output_size.saturating_sub(actual_read)))
OffsetRange == 0..SaturatingSub(output_size, actual_read)

\* lines 351-363: choose the offset, seek the destination, write the block
SeekWrite ==
    /\ pc = "write"
    /\ \E o \in OffsetRange, outcome \in {"ok", "seek_error", "write_error"} :
         /\ output_pos' = o
         /\ IF outcome = "seek_error"
            THEN /\ io_ops' = io_ops \cup {"dst_seek"}
                 /\ io_errors' = io_errors \cup {"dst_seek"}
                 /\ Fatal("seek_output")
                 /\ UNCHANGED writes
            ELSE /\ io_ops' = io_ops \cup {"dst_seek", "dst_write"}
                 /\ writes' = writes + 1
                 /\ IF outcome = "ok"
                    THEN /\ pc' = "flip"
                         /\ UNCHANGED <<error, io_errors>>
                    ELSE /\ io_errors' = io_errors \cup {"dst_write"}
                         /\ IF noerror
                            THEN pc' = "flip" /\ UNCHANGED error
                            ELSE Fatal("output")
    /\ UNCHANGED <<config, bytes_copied, environment, input_pos, grown,
                   speed_limit, bitarray, blocks_processed, chunk_size, buffer,
                   read_result, actual_read, now, summary, threads, alone>>

Pow2(n) == 2 ^ n      \* 1 << n

\* bit i of the byte b
Bit(b, i) == (b \div Pow2(i)) % 2

\* b | (1 << i): the bit is set, not toggled
SetBit(b, i) == IF Bit(b, i) = 1 THEN b ELSE b + Pow2(i)

\* b ^ (1 << i) on a u8
XorBit(b, i) == IF Bit(b, i) = 1 THEN b - Pow2(i) ELSE b + Pow2(i)

\* RandomDd::flip_bit; the vector is indexed from 1 here
flip_bit(ba, index) ==
    LET byte_idx == index \div 8
        bit_idx == index % 8
    IN  IF byte_idx < Len(ba)
        THEN [ba EXCEPT ![byte_idx + 1] = XorBit(ba[byte_idx + 1], bit_idx)]
        ELSE ba

\* Mutex::lock without waiting for the holder to release
CanLockAlways == TRUE

\* Mutex::lock returns only when nobody holds the mutex (lines 149, 197, 211, 421)
CanLock == mutex = "free"

\* line 366
bit_index == output_pos \div bs_min

\* lines 365-367 and 149: in bitmap mode flip_bit is called and takes the lock
FlipLock ==
    /\ pc = "flip"
    /\ IF status_level = "BitArray"
       THEN /\ CanLock
            /\ mutex' = "main"
            /\ pc' = "flipping"
       ELSE /\ pc' = "flush"
            /\ UNCHANGED mutex
    /\ UNCHANGED <<config, bytes_copied, environment, input_pos, grown,
                   speed_limit, bitarray, blocks_processed, iteration, now,
                   error, io_ops, io_errors, writes, summary, reporter, alone>>

\* lines 150-155: the bit is flipped under the lock, which the return releases
FlipBit ==
    /\ pc = "flipping"
    /\ bitarray' = flip_bit(bitarray, bit_index)
    /\ mutex' = "free"
    /\ pc' = "flush"
    /\ UNCHANGED <<config, bytes_copied, environment, input_pos, grown,
                   speed_limit, blocks_processed, iteration, now, error,
                   io_ops, io_errors, writes, summary, reporter, alone>>

\* the counter grows by the size requested, not by the bytes of the block
CountedChunk == chunk_size

\* line 379: the argument of bytes_copied.fetch_add
Counted == actual_read

\* lines 370-379: flush, then count the block; the I/O of the iteration
\* takes dt time units
FlushCount ==
    /\ pc = "flush"
    /\ \E flush_ok \in BOOLEAN, dt \in 0..1 :
         /\ (dt = 1) => now < MaxTime
         /\ now' = now + dt
         /\ io_ops' = io_ops \cup {"dst_flush"}
         /\ io_errors' = IF flush_ok THEN io_errors
                         ELSE io_errors \cup {"dst_flush"}
         /\ IF ~flush_ok /\ ~noerror
            THEN /\ Fatal("flush")
                 /\ UNCHANGED <<blocks_processed, bytes_copied>>
            ELSE /\ blocks_processed' = blocks_processed + 1
                 /\ bytes_copied' = bytes_copied + Counted
                 /\ pc' = "throttle"
                 /\ UNCHANGED error
    /\ UNCHANGED <<config, environment, input_pos, grown, speed_limit,
                   bitarray, iteration, writes, summary, threads, alone>>

\* line 393: the bytes the throttle accounts for
Expected == blocks_processed * chunk_size

\* lines 381-397: the throttle.  expected > elapsed is compared after
\* multiplying both sides by speed; the sleep ends at the first whole time
\* unit at which expected <= elapsed.  With speed = 0 expected is infinite
\* and Duration::from_secs_f64 panics.
Throttle ==
    /\ pc = "throttle"
    /\ IF speed_limit # None /\ Get(speed_limit) = 0
       THEN /\ pc' = "panic"
            /\ UNCHANGED <<now, iteration>>
       ELSE /\ now' = IF speed_limit # None /\ Expected > Get(speed_limit) * now
                      THEN DivCeil(Expected, Get(speed_limit))
                      ELSE now
            /\ chunk_size' = 0 /\ buffer' = <<>> /\ read_result' = "unset"
            /\ actual_read' = 0 /\ output_pos' = 0
            /\ pc' = "loop"
    /\ UNCHANGED <<config, bytes_copied, environment, input_pos, grown,
                   speed_limit, bitarray, blocks_processed, error, io_ops,
                   io_errors, writes, summary, threads, alone>>

\* line 404 without the test of the status level
PrintsSummaryAlways == TRUE

\* line 404: the summary is printed
PrintsSummary == status_level # "None"

\* lines 400-441: the final summary, after the loop ended by break; in bitmap
\* mode the bitmap is rendered first, under the lock (line 421)
Summary ==
    /\ pc = "summary"
    /\ IF status_level = "BitArray"
       THEN /\ CanLock
            /\ mutex' = "main"
            /\ pc' = "final_render"
            /\ UNCHANGED summary
       ELSE /\ summary' = PrintsSummary
            /\ pc' = "done"
            /\ UNCHANGED mutex
    /\ UNCHANGED <<config, bytes_copied, environment, input_pos, grown,
                   speed_limit, bitarray, blocks_processed, iteration, now,
                   error, io_ops, io_errors, writes, reporter, alone>>

\* lines 422-441: the bitmap is printed, the lock released at the end of the
\* block (line 431), then the summary line is printed
FinalRender ==
    /\ pc = "final_render"
    /\ mutex' = "free"
    /\ summary' = PrintsSummary
    /\ pc' = "done"
    /\ UNCHANGED <<config, bytes_copied, environment, input_pos, grown,
                   speed_limit, bitarray, blocks_processed, iteration, now,
                   error, io_ops, io_errors, writes, reporter, alone>>

(***************************************************************************)
(* The progress thread, lines 195-228.  It runs while the process does:    *)
(* the handle is forgotten and the process exits when main() returns.      *)
(***************************************************************************)
Running == pc \notin {"done", "fatal", "panic"}

engine == <<pc, config, bytes_copied, environment, input_pos, grown,
            speed_limit, bitarray, blocks_processed, iteration, now, error,
            io_ops, io_errors, writes, summary>>

\* line 197
is_bitarray == bitarray # <<>>

\* line 197: the lock is taken and released within the statement
ReporterStart ==
    /\ Running
    /\ reporter = "start"
    /\ CanLock
    /\ reporter' = "sleep"
    /\ UNCHANGED <<engine, mutex, alone>>

\* lines 200-211 and 220: the sleep ends, bytes_copied is loaded; in bitmap mode
\* the lock is taken for the rendering
ReporterTick ==
    /\ Running
    /\ reporter = "sleep"
    /\ IF is_bitarray
       THEN /\ CanLock
            /\ mutex' = "reporter"
            /\ reporter' = "render"
       ELSE /\ reporter' = "print"
            /\ UNCHANGED mutex
    /\ UNCHANGED <<engine, alone>>

\* lines 212-219 and 220-226: the lines are printed; the guard is dropped at the
\* end of the block
ReporterPrinted ==
    /\ Running
    /\ reporter \in {"render", "print"}
    /\ mutex' = IF reporter = "render" THEN "free" ELSE mutex
    /\ reporter' = "sleep"
    /\ UNCHANGED <<engine, alone>>

Reporter == ReporterStart \/ ReporterTick \/ ReporterPrinted

Engine ==
    \/ New
    \/ Startup
    \/ ReadExact
    \/ ShortRead
    \/ ReadError
    \/ SeekWrite
    \/ FlipLock
    \/ FlipBit
    \/ FlushCount
    \/ Throttle
    \/ Summary
    \/ FinalRender

Next == Engine \/ Reporter \/ SourceGrows

Spec == Init /\ [][Next]_vars

\* both threads are scheduled; the main thread gets the lock whenever the
\* progress thread, which sleeps between two renderings, has released it
FairSpec == Spec /\ SF_vars(Engine) /\ WF_vars(Reporter)

(***************************************************************************)
(* Properties.                                                             *)
(***************************************************************************)
Terminated == pc \in {"done", "fatal", "panic"}

\* the copy loop was entered: its first statement after the termination
\* check is the read
LoopEntered == "src_read" \in io_ops

\* the errors run() returns for a failed I/O operation inside the loop
LoopIoErrors == {"input", "seek_past", "seek_output", "output", "flush"}

\* a write_all of buffer[..actual_read] at output_pos has just been issued
JustWrote == pc = "flip" \/ (pc = "fatal" /\ error = "output")

\* C1: every destination write lies inside the destination:
\* 0 <= o <= destinationSize - actualRead and o + actualRead <= destinationSize,
\* for fixed and for ranged block sizes.
C1_WriteInsideDestination ==
    JustWrote =>
        /\ 0 <= output_pos
        /\ output_pos <= output_size - actual_read
        /\ output_pos + actual_read <= output_size

\* C2: without sync and without I/O errors, a source of length L with
\* 0 < L < blockSizeMin ends the run normally after exactly one block of
\* length L: bytesCopied = L and blocksProcessed = 1.
C2_OneShortBlock ==
    ( /\ pc \in {"summary", "done"}
      /\ ~sync
      /\ io_errors = {}
      /\ args.skip = None
      /\ grown = 0
      /\ 0 < input_len /\ input_len < bs_min )
    => /\ writes = 1
       /\ blocks_processed = 1
       /\ bytes_copied = input_len

\* C3: with sync, when a read hits end-of-stream after delivering more than 0
\* but fewer than the requested bytes, a block is written whose length is the
\* requested chunk size (the tail zero-padded), not the number of bytes read.
C3_SyncPadsToChunkSize ==
    ( /\ sync
      /\ read_result = "UnexpectedEof"
      /\ pc \in {"write", "flip", "flipping", "flush", "summary"}
      /\ \E i \in 1..Len(buffer) : buffer[i] = 1 )
    => /\ pc # "summary"
       /\ actual_read = chunk_size

\* C4: with maxBlocks = N, a source that never runs out and no I/O errors,
\* never more than N writes are issued, and when the run has ended exactly
\* N blocks have been written.
C4_ExactlyMaxBlocks ==
    ( /\ max_blocks # None
      /\ input_len = Endless
      /\ io_errors = {} )
    => /\ writes <= Get(max_blocks)
       /\ (LoopEntered /\ Terminated) => writes = Get(max_blocks)

\* C5: with noerror set, no failure of a destination operation (seek, write,
\* flush) aborts the run.
C5_NoerrorNeverAbortsOnDestination ==
    noerror => ~(pc = "fatal" /\ error \in {"seek_output", "output", "flush"})

\* C6 as stated: every termination of a started run, a fatal I/O error with
\* continueOnError false included, prints the summary unless statusLevel is None.
C6_SummaryOnEveryTermination ==
    ( /\ status_level # "None"
      /\ \/ pc = "done"
         \/ (pc = "fatal" /\ ~noerror /\ error \in LoopIoErrors) )
    => summary

\* C6 as amended: when the loop ends by break (maxBlocks reached or source
\* exhausted) the summary is printed exactly when statusLevel is not None;
\* a run that returns an error prints no summary.
C6_SummaryOnNormalTermination ==
    /\ pc = "done" => (summary <=> status_level # "None")
    /\ pc \in {"fatal", "panic"} => ~summary

C6_Witness ==
    /\ pc = "done"
    /\ status_level # "None"
    /\ summary
    /\ blocks_processed >= 1

\* C7: every configuration error is reported before any I/O operation (seek,
\* read or write) on the source or the destination, also with skip set.
C7_ConfigErrorsBeforeIo ==
    (pc = "fatal" /\ error \in ConfigErrors) => io_ops = {}

\* enough source bytes for n blocks of b bytes from the first read position
SourceHolds(n, b) ==
    \/ input_len = Endless
    \/ args.skip = None /\ grown = 0 /\ input_len >= n * b

\* C8: with a fixed block size b <= destinationSize, maxBlocks = N and an
\* error-free source of at least N*b bytes, every block written has length b
\* at an offset in [0, destinationSize - b], and the run ends with
\* blocksProcessed = N and bytesCopied = N*b.
C8_FixedSizeRun ==
    ( /\ max_blocks # None
      /\ bs_min = bs_max /\ bs_min >= 1
      /\ io_errors = {}
      /\ SourceHolds(Get(max_blocks), bs_min)
      /\ LoopEntered )
    => /\ JustWrote => /\ actual_read = bs_min
                       /\ output_pos \in 0..(output_size - bs_min)
       /\ Terminated => /\ blocks_processed = Get(max_blocks)
                        /\ bytes_copied = Get(max_blocks) * bs_min

\* C9: with a speed limit, after the throttle step of every iteration
\* bytesCopied <= speedLimit * elapsed, for fixed and for ranged block sizes.
C9_AverageBelowLimit ==
    (speed_limit # None /\ pc = "loop" /\ blocks_processed >= 1)
    => bytes_copied <= Get(speed_limit) * now

\* C10: with a destination of size 0, or blockSizeMin larger than the
\* destination, the run ends with a fatal error before the copy loop: nothing
\* is written and bytesCopied stays 0.
C10_RefusesToStart ==
    (pc # "main" /\ (output_size = 0 \/ bs_min > output_size))
    => /\ pc \in {"run", "fatal"}
       /\ pc = "fatal" => error # NoError
       /\ ~LoopEntered
       /\ writes = 0
       /\ "dst_write" \notin io_ops
       /\ bytes_copied = 0

C10_Witness ==
    /\ pc = "fatal"
    /\ error = "block_too_large"
    /\ bs_min > output_size
    /\ output_size > 0

\* an iteration has chosen its chunk size and allocated its buffer (lines
\* 303-311); the locals are kept until the next iteration replaces them
ChunkChosen == read_result # "unset"

\* C11: in every iteration the chosen chunk size c satisfies
\* blockSizeMin <= c <= blockSizeMax (with blockSizeMin <= blockSizeMax), and
\* c is the fixed value when blockSizeMin = blockSizeMax; the buffer read into
\* has c bytes.
C11_ChunkWithinRange ==
    ChunkChosen =>
        /\ bs_min <= bs_max
        /\ bs_min <= chunk_size
        /\ chunk_size <= bs_max
        /\ (bs_min = bs_max) => chunk_size = bs_min
        /\ Len(buffer) = chunk_size

C11_Witness ==
    /\ ChunkChosen
    /\ bs_min < bs_max
    /\ chunk_size = bs_max
    /\ pc = "write"

(***************************************************************************)
(* RandomDd::flip_bit applied alone: a bitmap and an index are drawn, and  *)
(* the same index is flipped twice.                                        *)
(***************************************************************************)
ByteValues == {0, 1, 128, 170, 255}

\* Vec<u8> values of 1..MaxBytes bytes
Bitmaps == UNION {[1..n -> ByteValues] : n \in 1..MaxBytes}

\* bit i of the vector: (byte >> bit) & 1 as visualize_bitarray reads it
BitAt(ba, i) == Bit(ba[(i \div 8) + 1], i % 8)

FlipInit ==
    /\ pc = "flip_bit"
    /\ bitarray \in Bitmaps
    /\ flip_orig = bitarray
    /\ flip_index \in 0..(8 * Len(bitarray) - 1)
    /\ args = [count |-> None, skip |-> None, speed |-> None]
    /\ bs_min = 1 /\ bs_max = 1
    /\ noerror = FALSE /\ sync = FALSE
    /\ status_level = "BitArray"
    /\ bytes_copied = 0
    /\ output_size = 8 * Len(bitarray)
    /\ input_len = 0
    /\ bad_pos = None
    /\ input_pos = 0
    /\ grown = 0
    /\ speed_limit = None
    /\ blocks_processed = 0
    /\ chunk_size = 0 /\ buffer = <<>> /\ read_result = "unset"
    /\ actual_read = 0 /\ output_pos = 0
    /\ now = 0
    /\ error = NoError
    /\ io_ops = {}
    /\ io_errors = {}
    /\ writes = 0
    /\ summary = FALSE
    /\ reporter = "off"
    /\ mutex = "free"

\* flip_bit(&bitarray, flip_index), a first time
FlipOnce ==
    /\ pc = "flip_bit"
    /\ bitarray' = flip_bit(bitarray, flip_index)
    /\ pc' = "flipped_once"
    /\ UNCHANGED <<config, bytes_copied, environment, input_pos, grown,
                   speed_limit, blocks_processed, iteration, now, error,
                   io_ops, io_errors, writes, summary, threads, alone>>

\* flip_bit(&bitarray, flip_index), a second time
FlipAgain ==
    /\ pc = "flipped_once"
    /\ bitarray' = flip_bit(bitarray, flip_index)
    /\ pc' = "flipped_twice"
    /\ UNCHANGED <<config, bytes_copied, environment, input_pos, grown,
                   speed_limit, blocks_processed, iteration, now, error,
                   io_ops, io_errors, writes, summary, threads, alone>>

FlipNext == FlipOnce \/ FlipAgain

FlipSpec == FlipInit /\ [][FlipNext]_vars

\* C12: for any bitmap and any index below the bit count, one flip changes
\* exactly the bit at that index and no other bit, and flipping the same index
\* a second time restores the original bitmap.
C12_FlipTwiceRestores ==
    /\ pc = "flipped_once" =>
         /\ Len(bitarray) = Len(flip_orig)
         /\ \A k \in 1..Len(bitarray) : bitarray[k] \in 0..255
         /\ \A i \in 0..(8 * Len(flip_orig) - 1) :
              BitAt(bitarray, i) = IF i = flip_index
                                   THEN 1 - BitAt(flip_orig, i)
                                   ELSE BitAt(flip_orig, i)
    /\ pc = "flipped_twice" => bitarray = flip_orig

C12_Witness ==
    /\ pc = "flipped_twice"
    /\ Len(flip_orig) = 2
    /\ flip_index > 8
    /\ flip_orig[2] = 170
    /\ bitarray = flip_orig

\* C13: with continueOnError set, an iteration whose destination write fails
\* does not count the block: blocksProcessed and bytesCopied are after that
\* iteration what they were before it.  Stated for the first write of a run,
\* before which both counters are 0: when that write has failed, both are
\* still 0 once its iteration is over.
C13_FailedWriteNotCounted ==
    ( /\ noerror
      /\ writes = 1
      /\ "dst_write" \in io_errors
      /\ pc \in {"throttle", "loop", "summary", "done"} )
    => /\ blocks_processed = 0
       /\ bytes_copied = 0

\* read_exact has failed with a true I/O error and the handler of lines 332-347
\* is about to run with noerror set and sync unset
SkipsBlock == pc = "read_error" /\ noerror /\ ~sync

C15_FiniteSourceEndsNormally ==
    ( /\ max_blocks = None
      /\ input_len # Endless
      /\ io_errors = {}
      /\ LoopEntered )
    => /\ pc \notin {"fatal", "panic"}
       /\ ~sync => bytes_copied <= input_len

\* the main thread is inside flip_bit, between lock() and the return
Flipping == pc = "flipping"

\* the progress thread holds the guard of line 211 and reads the bitmap
Rendering == reporter = "render"

\* the main thread holds the guard of line 421 and reads the bitmap
FinalRendering == pc = "final_render"

\* C16: the engine's flip of a bitmap bit and any render of the bitmap (by a
\* tick of the progress thread or by the final summary) are mutually
\* exclusive: in no reachable state is a flip in progress while a render reads
\* the bitmap; whoever reads or flips holds the mutex.
C16_FlipExcludesRender ==
    /\ ~(Flipping /\ Rendering)
    /\ ~(Flipping /\ FinalRendering)
    /\ ~(FinalRendering /\ Rendering)
    /\ Flipping => mutex = "main"
    /\ FinalRendering => mutex = "main"
    /\ Rendering => mutex = "reporter"

\* the engine has written a block and waits in lock() while the progress thread
\* renders the bitmap, in which an earlier flip is visible
C16_Witness ==
    /\ pc = "flip"
    /\ status_level = "BitArray"
    /\ Rendering
    /\ mutex = "reporter"
    /\ bitarray # Zeros(Len(bitarray))

\* C17: in every interleaving of engine iterations and ticks of the progress
\* thread, bytesCopied never decreases, every change of it is the addition of
\* actualRead by the engine iteration that completes (the step that also
\* counts the block), and a step of the progress thread leaves bytesCopied and
\* the bitmap unchanged.
C17_BytesCopiedMonotone ==
    [][ /\ bytes_copied' >= bytes_copied
        /\ (bytes_copied' # bytes_copied) =>
             /\ pc = "flush" /\ pc' = "throttle"
             /\ blocks_processed' = blocks_processed + 1
             /\ bytes_copied' = bytes_copied + actual_read
             /\ reporter' = reporter
        /\ (reporter # "off" /\ reporter' # reporter) =>
             UNCHANGED <<bytes_copied, bitarray, blocks_processed>> ]_vars

\* the progress thread prints a value of bytes_copied while the engine is in
\* the middle of a later iteration, whose block is shorter than requested
C17_Witness ==
    /\ reporter \in {"print", "render"}
    /\ bytes_copied >= 2
    /\ pc = "flush"
    /\ actual_read < chunk_size

\* C18: in bitmap mode the block index o / blockSizeMin passed to flip_bit is
\* strictly less than the bit count ceil(destinationSize / blockSizeMin): the
\* bounds guard of flip_bit passes, and the flip of every write toggles
\* exactly the bit of that index.
C18_FlipIndexInBitmap ==
    [][ (Flipping /\ pc' # pc) =>
          /\ bit_index < bitarray_size
          /\ bit_index \div 8 < Len(bitarray)
          /\ Len(bitarray') = Len(bitarray)
          /\ \A i \in 0..(8 * Len(bitarray) - 1) :
               BitAt(bitarray', i) = IF i = bit_index
                                     THEN 1 - BitAt(bitarray, i)
                                     ELSE BitAt(bitarray, i) ]_vars

\* a write in the last block of the destination has toggled the last bit
C18_Witness ==
    /\ pc = "flush"
    /\ status_level = "BitArray"
    /\ bitarray_size >= 2
    /\ bit_index = bitarray_size - 1
    /\ BitAt(bitarray, bit_index) = 1

\* C19: with continueOnError set, a run whose source fails to read at one
\* position gets past that position, in sync and in non-sync mode: whenever
\* the loop is back at its termination check after a failed read, the source
\* position is beyond the unreadable position (otherwise the next read starts
\* where this one did and fails the same way, without end when maxBlocks is
\* unset).
C19_PastUnreadableRegion ==
    ( /\ noerror
      /\ pc = "loop"
      /\ bad_pos # None
      /\ "src_read" \in io_errors )
    => input_pos > Get(bad_pos)

\* C20: every block-size configuration that is accepted has blockSizeMin >= 1:
\* a run given a block size of zero ("0", "0-2") ends with a fatal
\* configuration error, and reaches neither the bitmap-size computation
\* ceil(destinationSize / blockSizeMin) nor the copy loop.  (A run whose
\* --skip seek failed has ended before the block size matters.)
C20_ZeroBlockSizeRejected ==
    (bs_min = 0 /\ pc \notin {"main", "run"} /\ io_errors = {})
    => /\ pc = "fatal"
       /\ error \in ConfigErrors
       /\ ~LoopEntered

====
